---- MODULE Spec2Model ----
(***************************************************************************)
(* Tool-calling orchestration loops of the maliffi/mcp example repository. *)
(*                                                                         *)
(*   Spec        FunctionCallingAgent, the workflow of                     *)
(*               mcp-client-llamaindex/workflow/                           *)
(*               workflow_function_calling_agent.py                        *)
(*   SpecClient  MCPClient.process_query of mcp-client/client.py           *)
(*               (variant "anthropic") and of                              *)
(*               mcp-client-llamaindex/client.py (variant "ollama")        *)
(*   SpecLlama   handle_user_message of                                    *)
(*               mcp-client-llamaindex/client_agent_llama.py               *)
(*   SpecRepl    the five read-eval-print loops of the clients             *)
(***************************************************************************)
EXTENDS Integers, Sequences, FiniteSets, TLC

\* ------------------------------------------------------------- bounds
\* Longest batch of tool calls one model response carries.
MaxBatch == 2
\* Tool rounds of one request the model is allowed to ask for before the
\* environment stops asking (the code itself has no such limit).
MaxRounds == 2
\* Most chunks of one response stream.
MaxDeltas == 2

\* ------------------------------------------------------------- domains
\* Python's None.
None == "None"
\* Names the model puts in its tool calls; get_radar is never registered.
ToolUniverse == {"get_alerts", "get_radar"}
\* The tool lists an agent is built with (McpToolSpec.to_tool_list_async).
ToolLists == {{}, {"get_alerts", "get_forecast"}}
\* User requests.
Queries == {"What is the weather in NY?"}
\* The delta of a chunk of the response stream: None, or a piece of text.
DeltaValues == {None, "tok"}
\* Final answers of the model.
FinalTexts == {"There are currently no active weather alerts for New York."}
\* Text the model gives in place of a structured tool call: the payload of a
\* tool call written out as the content of the message.
PayloadTexts == {"{\"tool_calls\": [{\"function\": {\"name\": \"get_alerts\"}}]}"}

\* ------------------------------------------------ FunctionCallingAgent
VARIABLES
    tools,          \* self.tools, as the set of the tools' names
    pc,             \* "idle" | "start" | "llm" | "tools" | "done" | "failed":
                    \* the event the workflow run is waiting to deliver
    memorySet,      \* whether ctx holds a "memory" entry
    memory,         \* the ChatMemoryBuffer's messages, in put order
    sources,        \* ctx "sources"
    tool_calls,     \* payload of the pending ToolCallEvent
    result,         \* payload of the StopEvent
    failure,        \* the exception that ended the run, "" when none
    nextId,         \* next tool_id the model hands out
    rounds,         \* history: handle_tool_calls steps of this request
                    \* that ran to their end or raised
    llmCalls,       \* history: model calls of this request
    executed,       \* history: tool invocations of this request, in order
    deltas,         \* history: the deltas the model call in progress has
                    \* yielded so far, <<>> when no call is in progress
    stream          \* the StreamEvents written to the event stream for the
                    \* model call in progress

agentVars == <<tools, pc, memorySet, memory, sources, tool_calls, result,
               failure, nextId, rounds, llmCalls, executed, deltas, stream>>

\* StreamEvent(delta=response.delta or "")
StreamEvent(delta) == [delta |-> IF delta = None THEN "" ELSE delta]

\* ChatMessage(role, content, additional_kwargs); content is the sequence of
\* the pieces its f-string concatenates.
ChatMessage(role, content, tool_call_id, name, calls) ==
    [role |-> role, content |-> content, tool_call_id |-> tool_call_id,
     name |-> name, tool_calls |-> calls]

\* ToolSelection(tool_id, tool_name) as the model emits it.
ToolSelection(id, name) == [tool_id |-> id, tool_name |-> name]

\* The batches the model can emit whose first id is `firstId`.
Batches(firstId) ==
    UNION {{[i \in 1..n |-> ToolSelection(firstId + i - 1, names[i])] :
              names \in [1..n -> ToolUniverse]} : n \in 1..MaxBatch}

\* ToolsByNameGet that hands out a tool of the agent whatever its name.
ToolsByNameGet_Any(ts, name) ==
    IF ts = {} THEN None
    ELSE IF ts \ {name} # {} THEN CHOOSE t \in ts \ {name} : TRUE
    ELSE name

\* tools_by_name.get(tool_call.tool_name): the tool, or None.
ToolsByNameGet(ts, name) == IF name \in ts THEN name ELSE None

\* additional_kwargs of the tool message; tool.metadata raises
\* AttributeError when the lookup returned None.
AdditionalKwargs(tool_call, tool) ==
    IF tool = None
    THEN [raised |-> TRUE, tool_call_id |-> 0, name |-> ""]
    ELSE [raised |-> FALSE, tool_call_id |-> tool_call.tool_id, name |-> tool]

\* The ToolOutput of a successful call; `call` tags the call it answers.
ToolOutput(tool_call) ==
    [tool_name |-> tool_call.tool_name,
     content |-> <<"output of ", tool_call.tool_name>>,
     call |-> tool_call.tool_id]

NotExistContent(tool_call) == <<"Tool ", tool_call.tool_name, " does not exist">>

ErrorContent(tool_call) ==
    <<"Encountered error in tool call: ", tool_call.tool_name>>

\* tool_msgs.append(msg)
AppendToolMsg(tool_msgs, msg) == Append(tool_msgs, msg)

\* OnToolRaise with the exception swallowed: no tool message for the call.
OnToolRaise_NoMessage(st, tool_call, kw) ==
    [st EXCEPT !.log = Append(@, [id |-> tool_call.tool_id, outcome |-> "raise"])]

\* OnToolRaise with the failure also recorded as a source.
OnToolRaise_AddsSource(st, tool_call, kw) ==
    [st EXCEPT !.sources = Append(@, [tool_name |-> tool_call.tool_name,
                                      content |-> ErrorContent(tool_call),
                                      call |-> tool_call.tool_id]),
               !.tool_msgs = AppendToolMsg(@,
                    ChatMessage("tool", ErrorContent(tool_call),
                                kw.tool_call_id, kw.name, <<>>)),
               !.log = Append(@, [id |-> tool_call.tool_id, outcome |-> "raise"])]

\* The except branch of the tool call: one error message, sources untouched.
OnToolRaise(st, tool_call, kw) ==
    [st EXCEPT !.tool_msgs = AppendToolMsg(@,
                    ChatMessage("tool", ErrorContent(tool_call),
                                kw.tool_call_id, kw.name, <<>>)),
               !.log = Append(@, [id |-> tool_call.tool_id, outcome |-> "raise"])]

\* OnToolReturn with the output put in front of the earlier sources.
OnToolReturn_Prepends(st, tool_call, kw) ==
    [st EXCEPT !.sources = <<ToolOutput(tool_call)>> \o @,
               !.tool_msgs = AppendToolMsg(@,
                    ChatMessage("tool", ToolOutput(tool_call).content,
                                kw.tool_call_id, kw.name, <<>>)),
               !.log = Append(@, [id |-> tool_call.tool_id, outcome |-> "ok"])]

\* The try branch: sources.append(tool_output), then the tool message.
OnToolReturn(st, tool_call, kw) ==
    [st EXCEPT !.sources = Append(@, ToolOutput(tool_call)),
               !.tool_msgs = AppendToolMsg(@,
                    ChatMessage("tool", ToolOutput(tool_call).content,
                                kw.tool_call_id, kw.name, <<>>)),
               !.log = Append(@, [id |-> tool_call.tool_id, outcome |-> "ok"])]

\* The for loop of handle_tool_calls from call i on. outcome[i] says whether
\* tool i returns or raises when it is invoked. st.raised names the
\* exception that left the loop, "" when it ran to its end.
RECURSIVE CallTools(_, _, _, _, _)
CallTools(ts, calls, outcome, i, st) ==
    IF i > Len(calls) THEN st
    ELSE LET tool_call == calls[i]
             tool == ToolsByNameGet(ts, tool_call.tool_name)
             kw == AdditionalKwargs(tool_call, tool)
         IN IF kw.raised
            THEN [st EXCEPT !.raised = "AttributeError"]
            ELSE IF tool = None
            THEN CallTools(ts, calls, outcome, i + 1,
                     [st EXCEPT !.tool_msgs = AppendToolMsg(@,
                          ChatMessage("tool", NotExistContent(tool_call),
                                      kw.tool_call_id, kw.name, <<>>))])
            ELSE IF outcome[i] = "ok"
            THEN CallTools(ts, calls, outcome, i + 1,
                           OnToolReturn(st, tool_call, kw))
            ELSE CallTools(ts, calls, outcome, i + 1,
                           OnToolRaise(st, tool_call, kw))

\* PutAll with the tool messages put in front of the log.
PutAll_Front(mem, msgs) == msgs \o mem

\* for msg in tool_msgs: memory.put(msg)
PutAll(mem, msgs) == mem \o msgs

AgentInit ==
    /\ tools \in ToolLists
    /\ pc = "idle"
    /\ memorySet = FALSE
    /\ memory = <<>>
    /\ sources = <<>>
    /\ tool_calls = <<>>
    /\ result = [response |-> None, sources |-> <<>>]
    /\ failure = ""
    /\ nextId = 1
    /\ rounds = 0
    /\ llmCalls = 0
    /\ executed = <<>>
    /\ deltas = <<>>
    /\ stream = <<>>

\* agent.run(input=...): a new Context, and the StartEvent.
Run ==
    /\ pc \in {"idle", "done", "failed"}
    /\ pc' = "start"
    /\ memorySet' = FALSE
    /\ memory' = <<>>
    /\ sources' = <<>>
    /\ tool_calls' = <<>>
    /\ result' = [response |-> None, sources |-> <<>>]
    /\ failure' = ""
    /\ nextId' = 1
    /\ rounds' = 0
    /\ llmCalls' = 0
    /\ executed' = <<>>
    /\ deltas' = <<>>
    /\ stream' = <<>>
    /\ UNCHANGED tools

\* The step prepare_chat_history.
PrepareChatHistory(user_input) ==
    /\ pc = "start"
    /\ sources' = <<>>
    /\ memory' = Append(IF memorySet THEN memory ELSE <<>>,
                        ChatMessage("user", <<user_input>>, 0, "", <<>>))
    /\ memorySet' = TRUE
    /\ pc' = "llm"
    /\ UNCHANGED <<tools, tool_calls, result, failure, nextId, rounds,
                   llmCalls, executed, deltas, stream>>

\* StreamDelta with no event written for a chunk whose delta is None.
StreamDelta_SkipsNone(delta) ==
    /\ pc = "llm"
    /\ Len(deltas) < MaxDeltas
    /\ deltas' = Append(deltas, delta)
    /\ stream' = IF delta = None THEN stream
                 ELSE Append(stream, StreamEvent(delta))
    /\ UNCHANGED <<tools, pc, memorySet, memory, sources, tool_calls, result,
                   failure, nextId, rounds, llmCalls, executed>>

\* The step handle_llm_input, one turn of `async for response in
\* response_stream`: the chunk's delta is written to the event stream.
StreamDelta(delta) ==
    /\ pc = "llm"
    /\ Len(deltas) < MaxDeltas
    /\ deltas' = Append(deltas, delta)
    /\ stream' = Append(stream, StreamEvent(delta))
    /\ UNCHANGED <<tools, pc, memorySet, memory, sources, tool_calls, result,
                   failure, nextId, rounds, llmCalls, executed>>

\* HandleLlmInputFinal without memory.put(response.message).
HandleLlmInputFinal_NoPut(text) ==
    /\ pc = "llm"
    /\ deltas # <<>>
    /\ deltas' = <<>>
    /\ stream' = <<>>
    /\ LET response == ChatMessage("assistant", <<text>>, 0, "", <<>>)
       IN result' = [response |-> response, sources |-> sources]
    /\ llmCalls' = llmCalls + 1
    /\ pc' = "done"
    /\ UNCHANGED <<tools, memorySet, memory, sources, tool_calls, failure,
                   nextId, rounds, executed>>

\* The step handle_llm_input when the stream is over and the response
\* carries no tool call.
HandleLlmInputFinal(text) ==
    /\ pc = "llm"
    /\ deltas # <<>>
    /\ deltas' = <<>>
    /\ stream' = <<>>
    /\ LET response == ChatMessage("assistant", <<text>>, 0, "", <<>>)
       IN /\ memory' = Append(memory, response)
          /\ result' = [response |-> response, sources |-> sources]
    /\ llmCalls' = llmCalls + 1
    /\ pc' = "done"
    /\ UNCHANGED <<tools, memorySet, sources, tool_calls, failure, nextId,
                   rounds, executed>>

\* HandleLlmInputToolCalls with the response put into memory twice.
HandleLlmInputToolCalls_PutsTwice(batch) ==
    /\ pc = "llm"
    /\ deltas # <<>>
    /\ deltas' = <<>>
    /\ stream' = <<>>
    /\ rounds < MaxRounds
    /\ memory' = memory \o <<ChatMessage("assistant", <<>>, 0, "", batch),
                              ChatMessage("assistant", <<>>, 0, "", batch)>>
    /\ tool_calls' = batch
    /\ nextId' = nextId + Len(batch)
    /\ llmCalls' = llmCalls + 1
    /\ pc' = "tools"
    /\ UNCHANGED <<tools, memorySet, sources, result, failure, rounds,
                   executed>>

\* The step handle_llm_input when the stream is over and the response
\* carries tool calls.
HandleLlmInputToolCalls(batch) ==
    /\ pc = "llm"
    /\ deltas # <<>>
    /\ deltas' = <<>>
    /\ stream' = <<>>
    /\ rounds < MaxRounds
    /\ memory' = Append(memory, ChatMessage("assistant", <<>>, 0, "", batch))
    /\ tool_calls' = batch
    /\ nextId' = nextId + Len(batch)
    /\ llmCalls' = llmCalls + 1
    /\ pc' = "tools"
    /\ UNCHANGED <<tools, memorySet, sources, result, failure, rounds,
                   executed>>

\* The step handle_llm_input when astream_chat_with_tools or its stream
\* raises (the request_timeout of the model expired): nothing is put into
\* memory.
HandleLlmInputRaises ==
    /\ pc = "llm"
    /\ deltas' = <<>>
    /\ stream' = <<>>
    /\ llmCalls' = llmCalls + 1
    /\ failure' = "ModelTimeout"
    /\ pc' = "failed"
    /\ UNCHANGED <<tools, memorySet, memory, sources, tool_calls, result,
                   nextId, rounds, executed>>

\* The step handle_tool_calls. ctx.get("sources") hands out the stored list
\* itself, so the appends of the loop show in the context also when the step
\* raises before ctx.set.
HandleToolCalls(outcome) ==
    /\ pc = "tools"
    /\ LET st == CallTools(tools, tool_calls, outcome, 1,
                     [raised |-> "", tool_msgs |-> <<>>, sources |-> sources,
                      log |-> <<>>])
       IN /\ sources' = st.sources
          /\ executed' = executed \o st.log
          /\ IF st.raised = ""
             THEN /\ memory' = PutAll(memory, st.tool_msgs)
                  /\ pc' = "llm"
                  /\ failure' = failure
             ELSE /\ memory' = memory
                  /\ pc' = "failed"
                  /\ failure' = st.raised
    /\ rounds' = rounds + 1
    /\ UNCHANGED <<tools, memorySet, tool_calls, result, nextId, llmCalls,
                   deltas, stream>>

\* The workflow's timeout (get_agent: timeout=Config.LLM_REQ_TIMEOUT_SECONDS)
\* expires while the run waits between two steps.
WorkflowTimeout ==
    /\ pc \in {"start", "llm", "tools"}
    /\ failure' = "WorkflowTimeoutError"
    /\ pc' = "failed"
    /\ deltas' = <<>>
    /\ stream' = <<>>
    /\ UNCHANGED <<tools, memorySet, memory, sources, tool_calls, result,
                   nextId, rounds, llmCalls, executed>>

\* The awaits of handle_llm_input and of handle_tool_calls: the points where
\* a cancellation of the run (its timeout, or the caller's cancel) can be
\* delivered to the step.
LlmAwaitsBeforePut == {"astream_chat_with_tools", "get_memory"}
LlmAwaitsAfterPut == {"set_memory", "get_sources"}
ToolAwaits == {"get_sources", "get_memory", "set_sources", "set_memory"}

\* The response messages the model can give: a final text, or a batch.
LlmResponses ==
    {ChatMessage("assistant", <<t>>, 0, "", <<>>) :
        t \in FinalTexts \cup PayloadTexts}
    \cup {ChatMessage("assistant", <<>>, 0, "", b) : b \in Batches(nextId)}

\* handle_llm_input is cancelled at the model call or its stream, or at
\* `await ctx.get("memory")` after the stream is over: nothing is put.
HandleLlmInputCancelledBeforePut(at) ==
    /\ pc = "llm"
    /\ at = "get_memory" => deltas # <<>>
    /\ deltas' = <<>>
    /\ stream' = <<>>
    /\ llmCalls' = llmCalls + 1
    /\ failure' = "CancelledError"
    /\ pc' = "failed"
    /\ UNCHANGED <<tools, memorySet, memory, sources, tool_calls, result,
                   nextId, rounds, executed>>

\* handle_llm_input is cancelled at `await ctx.set("memory", memory)` or at
\* `await ctx.get("sources")`, which is on the path of a response without
\* tool calls only. The memory buffer is the object the context holds, so
\* memory.put(response.message) stays.
HandleLlmInputCancelledAfterPut(at, response) ==
    /\ pc = "llm"
    /\ deltas # <<>>
    /\ at = "get_sources" => response.tool_calls = <<>>
    /\ memory' = Append(memory, response)
    /\ deltas' = <<>>
    /\ stream' = <<>>
    /\ llmCalls' = llmCalls + 1
    /\ failure' = "CancelledError"
    /\ pc' = "failed"
    /\ UNCHANGED <<tools, memorySet, sources, tool_calls, result, nextId,
                   rounds, executed>>

\* HandleToolCallsCancelled when the cancellation tears the memory.put loop:
\* only the first tool message of the batch is in the log.
HandleToolCallsCancelled_PartialPut(at, outcome) ==
    /\ pc = "tools"
    /\ LET st == CallTools(tools, tool_calls, outcome, 1,
                     [raised |-> "", tool_msgs |-> <<>>, sources |-> sources,
                      log |-> <<>>])
       IN IF at = "get_sources"
          THEN UNCHANGED <<sources, executed, memory>>
          ELSE /\ st.raised = ""
               /\ sources' = st.sources
               /\ executed' = executed \o st.log
               /\ memory' = IF at = "get_memory" THEN memory
                            ELSE PutAll(memory, SubSeq(st.tool_msgs, 1, 1))
    /\ failure' = "CancelledError"
    /\ pc' = "failed"
    /\ UNCHANGED <<tools, memorySet, tool_calls, result, nextId, rounds,
                   llmCalls, deltas, stream>>

\* handle_tool_calls is cancelled at the await `at`: at ctx.get("sources")
\* before the loop, at ctx.get("memory") after the loop (the appends to the
\* stored sources list are done, no tool message is put yet), or at one of
\* the two ctx.set after the memory.put loop.
HandleToolCallsCancelled(at, outcome) ==
    /\ pc = "tools"
    /\ LET st == CallTools(tools, tool_calls, outcome, 1,
                     [raised |-> "", tool_msgs |-> <<>>, sources |-> sources,
                      log |-> <<>>])
       IN IF at = "get_sources"
          THEN UNCHANGED <<sources, executed, memory>>
          ELSE /\ st.raised = ""
               /\ sources' = st.sources
               /\ executed' = executed \o st.log
               /\ memory' = IF at = "get_memory" THEN memory
                            ELSE PutAll(memory, st.tool_msgs)
    /\ failure' = "CancelledError"
    /\ pc' = "failed"
    /\ UNCHANGED <<tools, memorySet, tool_calls, result, nextId, rounds,
                   llmCalls, deltas, stream>>

\* What handle_user_message hands its caller: `await agent.run(...)` gives
\* the result of the StopEvent when the run stops and re-raises the run's
\* exception when it fails. The Context, and with it the sources, belongs to
\* the run; an exception carries none of it (sources <<>>).
Surfaced ==
    IF pc = "done"
    THEN [kind |-> "result", response |-> result.response,
          sources |-> result.sources, error |-> ""]
    ELSE IF pc = "failed"
    THEN [kind |-> "exception", response |-> None, sources |-> <<>>,
          error |-> failure]
    ELSE [kind |-> "pending", response |-> None, sources |-> <<>>,
          error |-> ""]

\* ------------------------------------------- MCPClient.process_query
\* Longest content of one model response (blocks, or tool calls).
MaxBlocks == 2

\* The two programs: mcp-client/client.py, mcp-client-llamaindex/client.py.
Variants == {"anthropic", "ollama"}
\* Tools the model may ask the session for.
SessionTools == {"get_alerts", "get_forecast"}

VARIABLES
    variant,        \* which of the two clients runs, "" before it is started
    cpc,            \* "new" | "idle" | "loop" | "returned" | "raised"
    messages,       \* the list `messages` of process_query
    amc,            \* the list assistant_message_content (client.py only)
    final_text,     \* the list final_text
    first,          \* the first response; the for loop iterates over its
                    \* blocks, and first.content is message.content
    idx,            \* position of the for loop in first.blocks
    response,       \* the variable `response`: the latest model response
    cerror,         \* the exception that left process_query, "" when none
    cNextId,        \* next tool-use id the model hands out
    events          \* history: the model calls and tool calls, in order

clientVars == <<variant, cpc, messages, amc, final_text, first, idx,
                response, cerror, cNextId, events>>

\* A content block of a response: a text block or a tool-use block.
TextBlock(t) == [type |-> "text", text |-> t, id |-> 0, name |-> ""]
ToolUseBlock(id, name) == [type |-> "tool_use", text |-> "", id |-> id, name |-> name]

BlockShapes == {"text"} \cup SessionTools

\* A response of the model: its text (Ollama's message.content) and its
\* blocks (Anthropic's content; Ollama's message.tool_calls as tool-use
\* blocks). Tool-use ids are handed out in sequence from `firstId`; the text
\* of a text block is told apart by the running id and its position.
RECURSIVE MakeBlocks(_, _, _)
MakeBlocks(shapes, i, id) ==
    IF i > Len(shapes) THEN <<>>
    ELSE IF shapes[i] = "text"
    THEN <<TextBlock(<<"text", id, i>>)>> \o MakeBlocks(shapes, i + 1, id)
    ELSE <<ToolUseBlock(id, shapes[i])>> \o MakeBlocks(shapes, i + 1, id + 1)

ToolUses(blocks) == SelectSeq(blocks, LAMBDA b : b.type = "tool_use")

\* What the model can answer in each variant.
Responses(v, firstId) ==
    IF v = "anthropic"
    THEN UNION {{[content |-> "", blocks |-> MakeBlocks(sh, 1, firstId)] :
                    sh \in [1..n -> BlockShapes]} : n \in 1..MaxBlocks}
    ELSE UNION {{[content |-> "some text", blocks |-> MakeBlocks(sh, 1, firstId)] :
                    sh \in [1..n -> SessionTools]} : n \in 0..MaxBlocks}

\* A message of the list. An assistant message of client.py holds the list
\* assistant_message_content itself, not a copy: alias = TRUE stands for it.
Msg(role, content) == [role |-> role, alias |-> FALSE, content |-> content]
AliasMsg(role) == [role |-> role, alias |-> TRUE, content |-> <<>>]

\* The messages as a model call receives them.
View(msgs, shared) ==
    [i \in 1..Len(msgs) |->
        IF msgs[i].alias THEN Msg(msgs[i].role, shared) ELSE msgs[i]]

ModelEvent(msgs, shared, resp) ==
    [kind |-> "model", sent |-> View(msgs, shared), blocks |-> resp.blocks,
     id |-> 0, outcome |-> ""]
ToolEvent(block, outcome) ==
    [kind |-> "tool", sent |-> <<>>, blocks |-> <<>>, id |-> block.id,
     outcome |-> outcome]

\* "[Calling tool <name> with args <args>]"
CallingMarker(block) == <<"[Calling tool ", block.name, " with args ", "]">>

\* The tool-result message of client.py.
ToolResultMsg(block) ==
    Msg("user", <<[type |-> "tool_result", tool_use_id |-> block.id,
                   content |-> <<"output of ", block.name>>]>>)

\* f"Tool {tool_name} returned: {result.content}" of the llamaindex client.
ToolReturnedMsg(block) ==
    Msg("user", <<"Tool ", block.name, " returned: ", "output of ", block.name>>)

ClientInit ==
    /\ variant = ""
    /\ cpc = "new"
    /\ messages = <<>>
    /\ amc = <<>>
    /\ final_text = <<>>
    /\ first = [content |-> "", blocks |-> <<>>]
    /\ idx = 1
    /\ response = [content |-> "", blocks |-> <<>>]
    /\ cerror = ""
    /\ cNextId = 1
    /\ events = <<>>

\* main: one of the two clients is created and connected.
Connect(v) ==
    /\ cpc = "new"
    /\ variant' = v
    /\ cpc' = "idle"
    /\ UNCHANGED <<messages, amc, final_text, first, idx, response, cerror,
                   cNextId, events>>

\* process_query up to its for loop: the message list, the first model call,
\* and for the llamaindex client final_text.append(message.content).
ProcessQueryStart(query, resp) ==
    /\ cpc = "idle"
    /\ messages' = <<Msg("user", <<query>>)>>
    /\ amc' = <<>>
    /\ events' = <<ModelEvent(messages', amc', resp)>>
    /\ response' = resp
    /\ first' = resp
    /\ idx' = 1
    /\ final_text' = IF variant = "ollama" THEN <<resp.content>> ELSE <<>>
    /\ cNextId' = 1 + Len(ToolUses(resp.blocks))
    /\ cerror' = ""
    /\ cpc' = "loop"
    /\ UNCHANGED variant

\* process_query has returned or raised and the chat loop comes back to read
\* the next query: the locals of the call are gone.
ChatLoopNext ==
    /\ cpc \in {"returned", "raised"}
    /\ cpc' = "idle"
    /\ messages' = <<>>
    /\ amc' = <<>>
    /\ final_text' = <<>>
    /\ first' = [content |-> "", blocks |-> <<>>]
    /\ idx' = 1
    /\ response' = [content |-> "", blocks |-> <<>>]
    /\ cerror' = ""
    /\ cNextId' = 1
    /\ events' = <<>>
    /\ UNCHANGED variant

\* client.py, one turn of the for loop on a text block.
LoopText ==
    /\ cpc = "loop"
    /\ variant = "anthropic"
    /\ idx <= Len(first.blocks)
    /\ first.blocks[idx].type = "text"
    /\ final_text' = Append(final_text, first.blocks[idx].text)
    /\ amc' = Append(amc, first.blocks[idx])
    /\ idx' = idx + 1
    /\ UNCHANGED <<variant, cpc, messages, first, response, cerror, cNextId,
                   events>>

\* One turn of the for loop on a tool call when session.call_tool raises:
\* there is no handler in process_query, the exception leaves it.
LoopToolRaises ==
    /\ cpc = "loop"
    /\ idx <= Len(first.blocks)
    /\ first.blocks[idx].type = "tool_use"
    /\ events' = Append(events, ToolEvent(first.blocks[idx], "raise"))
    /\ cerror' = "call_tool"
    /\ cpc' = "raised"
    /\ UNCHANGED <<variant, messages, amc, final_text, first, idx, response,
                   cNextId>>

\* LoopToolUse with the text of the next response put before the marker.
LoopToolUse_TextFirst(resp) ==
    /\ cpc = "loop"
    /\ variant = "anthropic"
    /\ idx <= Len(first.blocks)
    /\ first.blocks[idx].type = "tool_use"
    /\ amc' = Append(amc, first.blocks[idx])
    /\ messages' = messages \o <<AliasMsg("assistant"), ToolResultMsg(first.blocks[idx])>>
    /\ events' = events \o <<ToolEvent(first.blocks[idx], "ok"),
                             ModelEvent(messages', amc', resp)>>
    /\ response' = resp
    /\ cNextId' = cNextId + Len(ToolUses(resp.blocks))
    /\ IF resp.blocks[1].type = "text"
       THEN /\ final_text' = final_text \o
                    <<resp.blocks[1].text, CallingMarker(first.blocks[idx])>>
            /\ idx' = idx + 1
            /\ UNCHANGED <<cpc, cerror>>
       ELSE /\ final_text' = Append(final_text, CallingMarker(first.blocks[idx]))
            /\ cerror' = "AttributeError"
            /\ cpc' = "raised"
            /\ UNCHANGED idx
    /\ UNCHANGED <<variant, first>>

\* client.py, one turn of the for loop on a tool-use block when the tool
\* call returns: the two messages, the next model call, and
\* final_text.append(response.content[0].text), which raises AttributeError
\* when that block is no text block.
LoopToolUse(resp) ==
    /\ cpc = "loop"
    /\ variant = "anthropic"
    /\ idx <= Len(first.blocks)
    /\ first.blocks[idx].type = "tool_use"
    /\ amc' = Append(amc, first.blocks[idx])
    /\ messages' = messages \o <<AliasMsg("assistant"), ToolResultMsg(first.blocks[idx])>>
    /\ events' = events \o <<ToolEvent(first.blocks[idx], "ok"),
                             ModelEvent(messages', amc', resp)>>
    /\ response' = resp
    /\ cNextId' = cNextId + Len(ToolUses(resp.blocks))
    /\ IF resp.blocks[1].type = "text"
       THEN /\ final_text' = final_text \o
                    <<CallingMarker(first.blocks[idx]), resp.blocks[1].text>>
            /\ idx' = idx + 1
            /\ UNCHANGED <<cpc, cerror>>
       ELSE /\ final_text' = Append(final_text, CallingMarker(first.blocks[idx]))
            /\ cerror' = "AttributeError"
            /\ cpc' = "raised"
            /\ UNCHANGED idx
    /\ UNCHANGED <<variant, first>>

\* The llamaindex client, one turn of the for loop over message.tool_calls
\* when the tool call returns: the two messages, the next model call, and
\* final_text.append(response.message.content).
LoopToolCall(resp) ==
    /\ cpc = "loop"
    /\ variant = "ollama"
    /\ idx <= Len(first.blocks)
    /\ messages' = messages \o <<Msg("assistant", <<first.content>>),
                                 ToolReturnedMsg(first.blocks[idx])>>
    /\ events' = events \o <<ToolEvent(first.blocks[idx], "ok"),
                             ModelEvent(messages', amc, resp)>>
    /\ response' = resp
    /\ cNextId' = cNextId + Len(ToolUses(resp.blocks))
    /\ final_text' = final_text \o <<CallingMarker(first.blocks[idx]), resp.content>>
    /\ idx' = idx + 1
    /\ UNCHANGED <<variant, cpc, amc, first, cerror>>

\* "\n".join(lines): the lines with a newline between each two.
RECURSIVE Join(_)
Join(lines) ==
    IF lines = <<>> THEN <<>>
    ELSE IF Len(lines) = 1 THEN <<lines[1]>>
    ELSE <<lines[1], "\n">> \o Join(Tail(lines))

\* The for loop is over: return "\n".join(final_text).
Return ==
    /\ cpc = "loop"
    /\ idx > Len(first.blocks)
    /\ cpc' = "returned"
    /\ UNCHANGED <<variant, messages, amc, final_text, first, idx, response,
                   cerror, cNextId, events>>

\* ------------------------ handle_user_message of client_agent_llama.py
\* Most events one run of the agent streams.
MaxEvents == 2
\* Longest text, in tokens, of a final response.
MaxTextLen == 2

\* A text is the sequence of its tokens: a blank, the opening of a tool-call
\* payload, or other words.
Blank == " "
ToolCallsPrefix == "{\"tool_calls\""
TextTokens == {Blank, ToolCallsPrefix, "words"}
Texts == UNION {[1..n -> TextTokens] : n \in 0..MaxTextLen}

\* str.strip(): the text without its leading and trailing blanks.
RECURSIVE LStrip(_)
LStrip(s) == IF s # <<>> /\ Head(s) = Blank THEN LStrip(Tail(s)) ELSE s
RECURSIVE RStrip(_)
RStrip(s) ==
    IF s # <<>> /\ s[Len(s)] = Blank THEN RStrip(SubSeq(s, 1, Len(s) - 1))
    ELSE s
Strip(s) == RStrip(LStrip(s))

\* str.startswith(tok)
StartsWith(s, tok) == s # <<>> /\ s[1] = tok

\* The events handler.stream_events() yields: ToolCall, ToolCallResult, and
\* events of the other types (AgentInput, AgentStream, AgentOutput).
EventTypes == {"ToolCall", "ToolCallResult", "AgentStream"}
AgentEvent(type, name) ==
    [type |-> type, tool_name |-> name,
     tool_kwargs |-> IF type = "ToolCall" THEN "{'state': 'NY'}" ELSE "",
     tool_output |-> IF type = "ToolCallResult" THEN "No active alerts" ELSE ""]

\* The two lines handle_user_message prints when verbose.
CallingLine(event) ==
    <<"Calling tool ", event.tool_name, " with kwargs ", event.tool_kwargs>>
ReturnedLine(event) ==
    <<"Tool ", event.tool_name, " returned ", event.tool_output>>

\* The answer returned in place of a tool-call payload without tool results.
SubstituteAnswer(message_content) ==
    <<"I found information that might help answer your question about: '",
      message_content, "', but I need to process it further.">>

VARIABLES
    hpc,            \* "idle" | "streaming" | "completing" | "returned" |
                    \* "raised": where handle_user_message stands
    verbose,        \* the parameter verbose
    message_content,\* the parameter message_content
    seen_calls,     \* the local list tool_calls
    tool_results,   \* the local list tool_results
    printed,        \* history: the lines printed for this request
    streamed,       \* history: number of events streamed for this request
    hevents,        \* history: the events streamed for this request
    final_response, \* str(final_response), <<>> before the handler is awaited
    returned,       \* the value returned, None when none
    herror,         \* the exception that left the function, "" when none
    completions     \* history: calls of Settings.llm.acomplete

llamaVars == <<hpc, verbose, message_content, seen_calls, tool_results,
               printed, streamed, hevents, final_response, returned, herror,
               completions>>

LlamaInit ==
    /\ hpc = "idle"
    /\ verbose = FALSE
    /\ message_content = ""
    /\ seen_calls = <<>>
    /\ tool_results = <<>>
    /\ printed = <<>>
    /\ streamed = 0
    /\ hevents = <<>>
    /\ final_response = <<>>
    /\ returned = None
    /\ herror = ""
    /\ completions = 0

\* handle_user_message is called: agent.run, and the two empty lists.
HandleUserMessage(query, v) ==
    /\ hpc \in {"idle", "returned", "raised"}
    /\ hpc' = "streaming"
    /\ verbose' = v
    /\ message_content' = query
    /\ seen_calls' = <<>>
    /\ tool_results' = <<>>
    /\ printed' = <<>>
    /\ streamed' = 0
    /\ hevents' = <<>>
    /\ final_response' = <<>>
    /\ returned' = None
    /\ herror' = ""
    /\ completions' = 0

\* StreamEventsTurn with the status lines printed whatever verbose says.
StreamEventsTurn_AlwaysPrints(event) ==
    /\ hpc = "streaming"
    /\ streamed < MaxEvents
    /\ streamed' = streamed + 1
    /\ hevents' = Append(hevents, event)
    /\ IF event.type = "ToolCall"
       THEN /\ seen_calls' = Append(seen_calls, event)
            /\ printed' = Append(printed, CallingLine(event))
            /\ UNCHANGED tool_results
       ELSE IF event.type = "ToolCallResult"
       THEN /\ tool_results' = Append(tool_results, event)
            /\ printed' = Append(printed, ReturnedLine(event))
            /\ UNCHANGED seen_calls
       ELSE UNCHANGED <<seen_calls, tool_results, printed>>
    /\ UNCHANGED <<hpc, verbose, message_content, final_response, returned,
                   herror, completions>>

\* One turn of `async for event in handler.stream_events()`.
StreamEventsTurn(event) ==
    /\ hpc = "streaming"
    /\ streamed < MaxEvents
    /\ streamed' = streamed + 1
    /\ hevents' = Append(hevents, event)
    /\ IF event.type = "ToolCall"
       THEN /\ seen_calls' = Append(seen_calls, event)
            /\ printed' = IF verbose THEN Append(printed, CallingLine(event))
                          ELSE printed
            /\ UNCHANGED tool_results
       ELSE IF event.type = "ToolCallResult"
       THEN /\ tool_results' = Append(tool_results, event)
            /\ printed' = IF verbose THEN Append(printed, ReturnedLine(event))
                          ELSE printed
            /\ UNCHANGED seen_calls
       ELSE UNCHANGED <<seen_calls, tool_results, printed>>
    /\ UNCHANGED <<hpc, verbose, message_content, final_response, returned,
                   herror, completions>>

\* The stream is over and `await handler` gives the final response: the
\* test on its text, and the return, the substitute answer, or the prompt
\* for Settings.llm.acomplete.
AwaitHandler(text) ==
    /\ hpc = "streaming"
    /\ final_response' = text
    /\ IF StartsWith(Strip(text), ToolCallsPrefix)
       THEN IF Len(tool_results) > 0
            THEN /\ hpc' = "completing"
                 /\ UNCHANGED returned
            ELSE /\ hpc' = "returned"
                 /\ returned' = SubstituteAnswer(message_content)
       ELSE /\ hpc' = "returned"
            /\ returned' = text
    /\ UNCHANGED <<verbose, message_content, seen_calls, tool_results,
                   printed, streamed, hevents, herror, completions>>

\* `await handler` raises: the run of the agent failed.
AwaitHandlerRaises ==
    /\ hpc = "streaming"
    /\ hpc' = "raised"
    /\ herror' = "WorkflowRuntimeError"
    /\ UNCHANGED <<verbose, message_content, seen_calls, tool_results,
                   printed, streamed, hevents, final_response, returned, completions>>

\* Settings.llm.acomplete(final_prompt) answers: return response.text.
AcompleteReturns(text) ==
    /\ hpc = "completing"
    /\ completions' = completions + 1
    /\ returned' = text
    /\ hpc' = "returned"
    /\ UNCHANGED <<verbose, message_content, seen_calls, tool_results,
                   printed, streamed, hevents, final_response, herror>>

\* Settings.llm.acomplete(final_prompt) raises.
AcompleteRaises ==
    /\ hpc = "completing"
    /\ completions' = completions + 1
    /\ herror' = "ModelTimeout"
    /\ hpc' = "raised"
    /\ UNCHANGED <<verbose, message_content, seen_calls, tool_results,
                   printed, streamed, hevents, final_response, returned>>

\* ------------------------------------------------------------ the REPLs
\* Longest input a user types into one REPL, in lines.
MaxLines == 3

\* chat_loop of mcp-client/client.py ("client"), chat_loop of
\* mcp-client-llamaindex/client.py ("client_llamaindex"), main of
\* client_llama.py, main of workflow_function_calling_agent.py ("workflow")
\* and main of client_agent_llama.py.
Repls == {"client", "client_llamaindex", "client_llama", "workflow",
          "client_agent_llama"}

\* The lines a user types, as token sequences.
InputLines == {<<"hello">>, <<"quit">>, <<"exit">>, <<"EXIT">>,
               <<Blank, "quit">>}
Scripts == UNION {[1..n -> InputLines] : n \in 0..MaxLines}

\* str.lower()
LowerToken(t) == IF t = "EXIT" THEN "exit" ELSE t
Lower(s) == [i \in 1..Len(s) |-> LowerToken(s[i])]

\* The text the REPL works with: input(...).strip() in the two chat_loops,
\* input(...) in the three mains.
QueryOf(r, line) ==
    IF r \in {"client", "client_llamaindex"} THEN Strip(line) ELSE line

\* Terminates with no line taken for the terminating token.
Terminates_Never(r, line) == FALSE

\* The test that ends the REPL: query.lower() == 'quit' in the two
\* chat_loops, user_input.lower() == "exit" in client_llama.py,
\* user_input == "exit" in the two other mains.
Terminates(r, line) ==
    IF r \in {"client", "client_llamaindex"}
    THEN Lower(QueryOf(r, line)) = <<"quit">>
    ELSE IF r = "client_llama"
    THEN Lower(QueryOf(r, line)) = <<"exit">>
    ELSE QueryOf(r, line) = <<"exit">>

\* Whether the REPL reads its input in a `while True` loop.
Loops(r) == r # "client_llamaindex"

\* Whether an `except Exception` is around the handling of a request.
Catches(r) == r \in {"client", "client_llamaindex", "client_llama"}

VARIABLES
    repl,           \* which REPL runs, "" before it is started
    rpc,            \* "new" | "reading" | "handling" | "exited"
    script,         \* the lines the user has still to type
    entered,        \* history: the lines read so far
    forwarded,      \* history: the queries passed to the request handler
    rprinted,       \* history: "response" or "error", per line printed
    errors,         \* history: requests whose handling raised
    exit_cause      \* "" | "token" | "return" | "exception"

replVars == <<repl, rpc, script, entered, forwarded, rprinted, errors,
              exit_cause>>

ReplInit ==
    /\ repl = ""
    /\ rpc = "new"
    /\ script = <<>>
    /\ entered = <<>>
    /\ forwarded = <<>>
    /\ rprinted = <<>>
    /\ errors = 0
    /\ exit_cause = ""

\* One of the programs is started; sc is what its user is going to type.
StartRepl(r, sc) ==
    /\ rpc = "new"
    /\ repl' = r
    /\ script' = sc
    /\ rpc' = "reading"
    /\ UNCHANGED <<entered, forwarded, rprinted, errors, exit_cause>>

\* input(...), the test for the terminating token, and the call of the
\* request handler (process_query, handle_user_message) with the query.
ReadLine ==
    /\ rpc = "reading"
    /\ script # <<>>
    /\ script' = Tail(script)
    /\ entered' = Append(entered, Head(script))
    /\ IF Terminates(repl, Head(script))
       THEN /\ rpc' = "exited"
            /\ exit_cause' = "token"
            /\ UNCHANGED forwarded
       ELSE /\ rpc' = "handling"
            /\ forwarded' = Append(forwarded, QueryOf(repl, Head(script)))
            /\ UNCHANGED exit_cause
    /\ UNCHANGED <<repl, rprinted, errors>>

\* The request handler returns: the response is printed; chat_loop of the
\* llamaindex client has no loop and returns.
HandlerReturns ==
    /\ rpc = "handling"
    /\ rprinted' = Append(rprinted, "response")
    /\ IF Loops(repl)
       THEN /\ rpc' = "reading"
            /\ UNCHANGED exit_cause
       ELSE /\ rpc' = "exited"
            /\ exit_cause' = "return"
    /\ UNCHANGED <<repl, script, entered, forwarded, errors>>

\* The request handler raises: the except branch where there is one, the
\* end of main where there is none.
HandlerRaises ==
    /\ rpc = "handling"
    /\ errors' = errors + 1
    /\ IF Catches(repl)
       THEN /\ rprinted' = Append(rprinted, "error")
            /\ IF Loops(repl)
               THEN /\ rpc' = "reading"
                    /\ UNCHANGED exit_cause
               ELSE /\ rpc' = "exited"
                    /\ exit_cause' = "return"
       ELSE /\ rpc' = "exited"
            /\ exit_cause' = "exception"
            /\ UNCHANGED rprinted
    /\ UNCHANGED <<repl, script, entered, forwarded>>

\* ------------------------- MCPClient.process_query of client_llama.py
\* Most calls of process_query, and most lists the caller builds.
MaxCalls == 3
MaxLists == 1

VARIABLES
    heap,       \* the lists of messages that exist; heap[1] is the list
                \* that the def statement made as the default of `messages`
    held,       \* the lists the caller has a reference to
    calls       \* history: one record per call of process_query

chatVars == <<heap, held, calls>>

\* What the user asks.
Prompts == {"Any alerts in NY?", "And in CA?"}

\* ChatMessage(role="user", content=query) and the system message of main.
UserMessage(query) == [role |-> "user", content |-> query]
SystemMessage == [role |-> "system", content |-> "SYSTEM_PROMPT"]

\* The parameter bound to a new empty list on every call.
BoundList_Fresh(arg) == IF arg = 0 THEN Len(heap) + 1 ELSE arg

\* The list the parameter `messages` is bound to: the default list when the
\* argument is omitted (arg = 0), the list passed otherwise.
BoundList(arg) == IF arg = 0 THEN 1 ELSE arg

ChatInit ==
    /\ heap = <<<<>>>>
    /\ held = {}
    /\ calls = <<>>

\* The caller builds a list: [] or, as main does, [system message].
NewList(init) ==
    /\ Len(heap) <= MaxLists
    /\ heap' = Append(heap, init)
    /\ held' = held \cup {Len(heap) + 1}
    /\ UNCHANGED calls

\* The heap after messages.append(ChatMessage(role="user", content=query)).
AppendUser(target, query) ==
    IF target > Len(heap) THEN Append(heap, <<UserMessage(query)>>)
    ELSE [heap EXCEPT ![target] = Append(@, UserMessage(query))]

\* process_query(query[, messages]) when self.llm.chat returns: the call
\* returns (response, messages).
ProcessQuery(query, arg) ==
    /\ Len(calls) < MaxCalls
    /\ arg \in {0} \cup held
    /\ LET target == BoundList(arg)
       IN /\ heap' = AppendUser(target, query)
          /\ held' = held \cup {target}
          /\ calls' = Append(calls, [query |-> query, arg |-> arg,
                                     sent |-> heap'[target],
                                     returned |-> target])

\* process_query when self.llm.chat raises: the message is appended, nothing
\* is returned.
ProcessQueryChatRaises(query, arg) ==
    /\ Len(calls) < MaxCalls
    /\ arg \in {0} \cup held
    /\ LET target == BoundList(arg)
       IN /\ heap' = AppendUser(target, query)
          /\ calls' = Append(calls, [query |-> query, arg |-> arg,
                                     sent |-> heap'[target],
                                     returned |-> 0])
    /\ UNCHANGED held

\* ------------- main of mcp-client/client.py and mcp-client-llamaindex/client.py
\* Most lines the chat loop handles in one run.
MaxTurns == 2

\* The two programs whose main wraps connect and chat_loop in try/finally.
Mains == {"client", "client_llamaindex"}

\* A path is the sequence of its characters.
ScriptPaths ==
    {<<"w", ".", "p", "y">>, <<"w", ".", "j", "s">>, <<"w", ".", "s", "h">>,
     <<"w", ".", "p", "y", "c">>, <<".", "p", "y">>, <<"w", ".", "P", "Y">>,
     <<"p", "y">>, <<"w", ".", "p", "y", ".", "j", "s">>, <<>>}

\* The suffix occurs somewhere in the string.
EndsWith_Contains(str, suffix) ==
    \E i \in 1..Len(str) :
        /\ i + Len(suffix) - 1 <= Len(str)
        /\ SubSeq(str, i, i + Len(suffix) - 1) = suffix

\* str.endswith(suffix)
EndsWith(str, suffix) ==
    /\ Len(suffix) <= Len(str)
    /\ SubSeq(str, Len(str) - Len(suffix) + 1, Len(str)) = suffix

\* The awaits of connect_to_server, in order; each may raise.
ConnectAwaits == <<"transport", "session", "initialize", "list_tools">>
ConnectOutcomes ==
    {"ok"} \cup {ConnectAwaits[i] : i \in 1..Len(ConnectAwaits)}

VARIABLES
    mprog,          \* which main runs, "" before it is started
    mpc,            \* "new" | "connect" | "chat" | "finally" | "exited"
    script_path,    \* sys.argv[1] (client.py only)
    command,        \* command of the server parameters, None before
    session,        \* self.session, None before it is assigned
    exit_stack,     \* the contexts entered into self.exit_stack, in order
    closed,         \* the contexts aclose has exited, in order
    merror,         \* the exception that left the try block, "" when none
    ended,          \* how the try block ended, "" while it runs
    cleanups,       \* the number of calls of cleanup
    turns           \* history: the outcome of each line the chat loop handled

mainVars == <<mprog, mpc, script_path, command, session, exit_stack, closed,
              merror, ended, cleanups, turns>>

MainInit ==
    /\ mprog = ""
    /\ mpc = "new"
    /\ script_path = <<>>
    /\ command = None
    /\ session = None
    /\ exit_stack = <<>>
    /\ closed = <<>>
    /\ merror = ""
    /\ ended = ""
    /\ cleanups = 0
    /\ turns = <<>>

\* main up to the try statement: the client is created.
StartMain(prog, path) ==
    /\ mpc = "new"
    /\ mprog' = prog
    /\ script_path' = IF prog = "client" THEN path ELSE <<>>
    /\ mpc' = "connect"
    /\ UNCHANGED <<command, session, exit_stack, closed, merror, ended,
                   cleanups, turns>>

is_python == EndsWith(script_path, <<".", "p", "y">>)
is_js == EndsWith(script_path, <<".", "j", "s">>)

\* connect_to_server of client.py on a path that is neither .py nor .js.
ConnectToServerRejects ==
    /\ mpc = "connect"
    /\ mprog = "client"
    /\ ~(is_python \/ is_js)
    /\ merror' = "ValueError"
    /\ ended' = "connect_raised"
    /\ mpc' = "finally"
    /\ UNCHANGED <<mprog, script_path, command, session, exit_stack, closed,
                   cleanups, turns>>

\* The position of an await in connect_to_server; past the end for "ok".
AwaitIndex(outcome) ==
    IF outcome = "ok" THEN Len(ConnectAwaits) + 1
    ELSE CHOOSE i \in 1..Len(ConnectAwaits) : ConnectAwaits[i] = outcome

\* connect_to_server otherwise: the transport and the session are entered
\* into the exit stack, the session is initialised and the tools are listed;
\* `outcome` names the await that raises, or is "ok".
ConnectToServer(outcome) ==
    /\ mpc = "connect"
    /\ mprog = "client" => (is_python \/ is_js)
    /\ command' = IF mprog = "client"
                  THEN (IF is_python THEN "python" ELSE "node")
                  ELSE command
    /\ exit_stack' = SubSeq(<<"transport", "session">>, 1,
                            IF AwaitIndex(outcome) > 2 THEN 2
                            ELSE AwaitIndex(outcome) - 1)
    /\ session' = IF AwaitIndex(outcome) > 2 THEN "session" ELSE session
    /\ IF outcome = "ok"
       THEN /\ mpc' = "chat"
            /\ UNCHANGED <<merror, ended>>
       ELSE /\ merror' = "connect"
            /\ ended' = "connect_raised"
            /\ mpc' = "finally"
    /\ UNCHANGED <<mprog, script_path, closed, cleanups, turns>>

\* chat_loop handles one line that is not quit: process_query returns
\* ("answered") or raises an Exception that the loop catches ("error"). The
\* chat_loop of the llamaindex client has no loop and returns afterwards.
ChatLoopTurn(outcome) ==
    /\ mpc = "chat"
    /\ Len(turns) < MaxTurns
    /\ turns' = Append(turns, outcome)
    /\ IF mprog = "client_llamaindex"
       THEN /\ ended' = "normal"
            /\ mpc' = "finally"
       ELSE UNCHANGED <<ended, mpc>>
    /\ UNCHANGED <<mprog, script_path, command, session, exit_stack, closed,
                   merror, cleanups>>

\* chat_loop reads quit: break (client.py), return (llamaindex client).
ChatLoopQuit ==
    /\ mpc = "chat"
    /\ ended' = "normal"
    /\ mpc' = "finally"
    /\ UNCHANGED <<mprog, script_path, command, session, exit_stack, closed,
                   merror, cleanups, turns>>

\* An exception that `except Exception` does not catch (KeyboardInterrupt,
\* CancelledError) leaves chat_loop.
ChatLoopRaises ==
    /\ mpc = "chat"
    /\ merror' = "chat"
    /\ ended' = "chat_raised"
    /\ mpc' = "finally"
    /\ UNCHANGED <<mprog, script_path, command, session, exit_stack, closed,
                   cleanups, turns>>

\* The try/finally without the finally: cleanup only after a chat loop that
\* ended without an exception.
Cleanup_NoFinally ==
    /\ mpc = "finally"
    /\ merror = ""
    /\ cleanups' = cleanups + 1
    /\ closed' = [i \in 1..Len(exit_stack) |->
                      exit_stack[Len(exit_stack) + 1 - i]]
    /\ exit_stack' = <<>>
    /\ mpc' = "exited"
    /\ UNCHANGED <<mprog, script_path, command, session, merror, ended,
                   turns>>

\* finally: await client.cleanup(), which closes the exit stack: the
\* contexts are exited last in, first out.
Cleanup ==
    /\ mpc = "finally"
    /\ cleanups' = cleanups + 1
    /\ closed' = [i \in 1..Len(exit_stack) |->
                      exit_stack[Len(exit_stack) + 1 - i]]
    /\ exit_stack' = <<>>
    /\ mpc' = "exited"
    /\ UNCHANGED <<mprog, script_path, command, session, merror, ended,
                   turns>>

\* ------------------------------------- get_alerts of the weather server
\* Most features of one upstream answer.
MaxFeatures == 2

NWS_API_BASE == "https://api.weather.gov"
StateCodes == {"NY", "CA"}

\* What client.get, raise_for_status and response.json can raise.
RequestErrors ==
    {"ConnectError", "ReadTimeout", "HTTPStatusError", "JSONDecodeError"}

\* The value of a key the properties do not have.
Absent == "<absent>"

\* A feature of the answer: with properties, of which event and instruction
\* may be absent, or without the key "properties".
Features ==
    {[has_properties |-> TRUE,
      properties |-> [event |-> ev, areaDesc |-> "Kings", severity |-> "Severe",
                      description |-> "Flooding is occurring.",
                      instruction |-> ins]] :
        ev \in {Absent, "Flood Warning", "Heat Advisory"},
        ins \in {Absent, "Move to higher ground."}}
    \cup {[has_properties |-> FALSE,
           properties |-> [event |-> Absent, areaDesc |-> Absent,
                           severity |-> Absent, description |-> Absent,
                           instruction |-> Absent]]}

\* The value make_nws_request returns: None, or the dict of the JSON answer
\* with its keys and the list under "features".
NoData == [is_none |-> TRUE, keys |-> {}, features |-> <<>>]
Dict(keys, features) == [is_none |-> FALSE, keys |-> keys, features |-> features]

Payloads ==
    {Dict({}, <<>>), Dict({"title"}, <<>>)}
    \cup UNION {{Dict({"title", "features"}, fs) : fs \in [1..n -> Features]} :
                  n \in 0..MaxFeatures}

\* What the upstream does with one request: an error, or a JSON answer.
Upstreams ==
    {[error |-> e, json |-> NoData] : e \in RequestErrors}
    \cup {[error |-> "", json |-> d] : d \in Payloads}

\* make_nws_request: the JSON answer, None on every exception of the request.
make_nws_request(upstream) ==
    IF upstream.error # "" THEN NoData ELSE upstream.json

\* props.get(key, default)
PropsGet(props, key, default) ==
    IF props[key] = Absent THEN default ELSE props[key]

\* format_alert: the text as the sequence of its pieces.
format_alert(feature) ==
    LET props == feature.properties
    IN <<"\nEvent: ", PropsGet(props, "event", "Unknown"),
         "\nArea: ", PropsGet(props, "areaDesc", "Unknown"),
         "\nSeverity: ", PropsGet(props, "severity", "Unknown"),
         "\nDescription: ",
         PropsGet(props, "description", "No description available"),
         "\nInstructions: ",
         PropsGet(props, "instruction", "No specific instructions provided"),
         "\n">>

\* The join with the separator before every alert.
RECURSIVE JoinAlerts_SeparatorFirst(_)
JoinAlerts_SeparatorFirst(alerts) ==
    IF alerts = <<>> THEN <<>>
    ELSE <<"\n---\n">> \o Head(alerts)
             \o JoinAlerts_SeparatorFirst(Tail(alerts))

\* "\n---\n".join(alerts)
RECURSIVE JoinAlerts(_)
JoinAlerts(alerts) ==
    IF alerts = <<>> THEN <<>>
    ELSE IF Len(alerts) = 1 THEN alerts[1]
    ELSE alerts[1] \o <<"\n---\n">> \o JoinAlerts(Tail(alerts))

VARIABLES
    wpc,        \* "idle" | "returned" | "raised"
    url,        \* the url of the request
    upstream,   \* what the upstream did with the request
    data,       \* the variable `data` of get_alerts
    wresult,    \* the text get_alerts returned, as the sequence of its pieces
    werror      \* the exception that left get_alerts, "" when none

weatherVars == <<wpc, url, upstream, data, wresult, werror>>

WeatherInit ==
    /\ wpc = "idle"
    /\ url = <<>>
    /\ upstream = [error |-> "", json |-> NoData]
    /\ data = NoData
    /\ wresult = <<>>
    /\ werror = ""

\* get_alerts(state), the upstream doing `up` with its request.
\* feature["properties"] raises KeyError for a feature without that key.
get_alerts(state, up) ==
    /\ url' = <<NWS_API_BASE, "/alerts/active/area/", state>>
    /\ upstream' = up
    /\ data' = make_nws_request(up)
    /\ IF data'.is_none \/ data'.keys = {} \/ "features" \notin data'.keys
       THEN /\ wresult' = <<"Unable to fetch alerts or no alerts found.">>
            /\ werror' = ""
            /\ wpc' = "returned"
       ELSE IF data'.features = <<>>
       THEN /\ wresult' = <<"No active alerts for this state.">>
            /\ werror' = ""
            /\ wpc' = "returned"
       ELSE IF \E i \in 1..Len(data'.features) :
                  ~data'.features[i].has_properties
       THEN /\ wresult' = <<>>
            /\ werror' = "KeyError"
            /\ wpc' = "raised"
       ELSE /\ wresult' = JoinAlerts([i \in 1..Len(data'.features) |->
                                         format_alert(data'.features[i])])
            /\ werror' = ""
            /\ wpc' = "returned"

\* ------------------------------------------------------ specifications
baseVars == <<agentVars, clientVars, llamaVars, replVars>>
moreVars == <<chatVars, mainVars, weatherVars>>
vars == <<agentVars, clientVars, llamaVars, replVars, moreVars>>
Init ==
    /\ AgentInit /\ ClientInit /\ LlamaInit /\ ReplInit
    /\ ChatInit /\ MainInit /\ WeatherInit

\* The workflow agent alone: its steps, in whatever order their events
\* allow.
Next ==
    \/ Run /\ UNCHANGED <<clientVars, llamaVars, replVars, moreVars>>
    \/ (\E q \in Queries : PrepareChatHistory(q))
          /\ UNCHANGED <<clientVars, llamaVars, replVars, moreVars>>
    \/ (pc = "llm" /\ \E d \in DeltaValues : StreamDelta(d))
          /\ UNCHANGED <<clientVars, llamaVars, replVars, moreVars>>
    \/ (pc = "llm" /\ \E t \in FinalTexts \cup PayloadTexts :
            HandleLlmInputFinal(t))
          /\ UNCHANGED <<clientVars, llamaVars, replVars, moreVars>>
    \/ (pc = "llm" /\ \E b \in Batches(nextId) : HandleLlmInputToolCalls(b))
          /\ UNCHANGED <<clientVars, llamaVars, replVars, moreVars>>
    \/ HandleLlmInputRaises /\ UNCHANGED <<clientVars, llamaVars, replVars, moreVars>>
    \/ (pc = "tools" /\ \E o \in [1..Len(tool_calls) -> {"ok", "raise"}] :
            HandleToolCalls(o))
          /\ UNCHANGED <<clientVars, llamaVars, replVars, moreVars>>
    \/ WorkflowTimeout /\ UNCHANGED <<clientVars, llamaVars, replVars, moreVars>>
    \/ (pc = "llm" /\ \E at \in LlmAwaitsBeforePut :
            HandleLlmInputCancelledBeforePut(at))
          /\ UNCHANGED <<clientVars, llamaVars, replVars, moreVars>>
    \/ (pc = "llm" /\ \E at \in LlmAwaitsAfterPut : \E r \in LlmResponses :
            HandleLlmInputCancelledAfterPut(at, r))
          /\ UNCHANGED <<clientVars, llamaVars, replVars, moreVars>>
    \/ (pc = "tools" /\ \E at \in ToolAwaits :
         \E o \in [1..Len(tool_calls) -> {"ok", "raise"}] :
            HandleToolCallsCancelled(at, o))
          /\ UNCHANGED <<clientVars, llamaVars, replVars, moreVars>>
Spec == Init /\ [][Next]_vars

\* The two process_query clients alone.
NextClient ==
    \/ (\E v \in Variants : Connect(v)) /\ UNCHANGED <<agentVars, llamaVars, replVars, moreVars>>
    \/ (cpc = "idle" /\ \E q \in Queries : \E r \in Responses(variant, 1) :
            ProcessQueryStart(q, r)) /\ UNCHANGED <<agentVars, llamaVars, replVars, moreVars>>
    \/ LoopText /\ UNCHANGED <<agentVars, llamaVars, replVars, moreVars>>
    \/ LoopToolRaises /\ UNCHANGED <<agentVars, llamaVars, replVars, moreVars>>
    \/ (cpc = "loop" /\ variant = "anthropic"
          /\ \E r \in Responses(variant, cNextId) : LoopToolUse(r))
          /\ UNCHANGED <<agentVars, llamaVars, replVars, moreVars>>
    \/ (cpc = "loop" /\ variant = "ollama"
          /\ \E r \in Responses(variant, cNextId) : LoopToolCall(r))
          /\ UNCHANGED <<agentVars, llamaVars, replVars, moreVars>>
    \/ Return /\ UNCHANGED <<agentVars, llamaVars, replVars, moreVars>>
    \/ ChatLoopNext /\ UNCHANGED <<agentVars, llamaVars, replVars, moreVars>>
SpecClient == Init /\ [][NextClient]_vars

\* handle_user_message of client_agent_llama.py alone.
NextLlama ==
    \/ (\E q \in Queries : \E v \in BOOLEAN : HandleUserMessage(q, v))
          /\ UNCHANGED <<agentVars, clientVars, replVars, moreVars>>
    \/ (\E t \in EventTypes : StreamEventsTurn(AgentEvent(t, "get_alerts")))
          /\ UNCHANGED <<agentVars, clientVars, replVars, moreVars>>
    \/ (\E t \in Texts : AwaitHandler(t)) /\ UNCHANGED <<agentVars, clientVars, replVars, moreVars>>
    \/ AwaitHandlerRaises /\ UNCHANGED <<agentVars, clientVars, replVars, moreVars>>
    \/ (\E t \in Texts : AcompleteReturns(t))
          /\ UNCHANGED <<agentVars, clientVars, replVars, moreVars>>
    \/ AcompleteRaises /\ UNCHANGED <<agentVars, clientVars, replVars, moreVars>>
SpecLlama == Init /\ [][NextLlama]_vars

\* The five REPLs alone.
NextRepl ==
    \/ (rpc = "new" /\ \E r \in Repls : \E sc \in Scripts : StartRepl(r, sc))
          /\ UNCHANGED <<agentVars, clientVars, llamaVars, moreVars>>
    \/ ReadLine /\ UNCHANGED <<agentVars, clientVars, llamaVars, moreVars>>
    \/ HandlerReturns /\ UNCHANGED <<agentVars, clientVars, llamaVars, moreVars>>
    \/ HandlerRaises /\ UNCHANGED <<agentVars, clientVars, llamaVars, moreVars>>
SpecRepl == Init /\ [][NextRepl]_vars

\* process_query of client_llama.py alone, called with and without a list.
NextChat ==
    \/ (\E init \in {<<>>, <<SystemMessage>>} : NewList(init))
          /\ UNCHANGED <<baseVars, mainVars, weatherVars>>
    \/ (\E q \in Prompts : \E a \in {0} \cup held : ProcessQuery(q, a))
          /\ UNCHANGED <<baseVars, mainVars, weatherVars>>
    \/ (\E q \in Prompts : \E a \in {0} \cup held :
            ProcessQueryChatRaises(q, a))
          /\ UNCHANGED <<baseVars, mainVars, weatherVars>>
SpecChat == Init /\ [][NextChat]_vars

\* The two mains with try/finally alone.
NextMain ==
    \/ (\E prog \in Mains : \E path \in ScriptPaths : StartMain(prog, path))
          /\ UNCHANGED <<baseVars, chatVars, weatherVars>>
    \/ ConnectToServerRejects /\ UNCHANGED <<baseVars, chatVars, weatherVars>>
    \/ (\E o \in ConnectOutcomes : ConnectToServer(o))
          /\ UNCHANGED <<baseVars, chatVars, weatherVars>>
    \/ (\E o \in {"answered", "error"} : ChatLoopTurn(o))
          /\ UNCHANGED <<baseVars, chatVars, weatherVars>>
    \/ ChatLoopQuit /\ UNCHANGED <<baseVars, chatVars, weatherVars>>
    \/ ChatLoopRaises /\ UNCHANGED <<baseVars, chatVars, weatherVars>>
    \/ Cleanup /\ UNCHANGED <<baseVars, chatVars, weatherVars>>
SpecMain == Init /\ [][NextMain]_vars

\* The same where a finally clause that is due does run.
SpecMainFair ==
    SpecMain /\ WF_vars(Cleanup /\ UNCHANGED <<baseVars, chatVars, weatherVars>>)

\* The get_alerts tool alone, called again and again.
NextWeather ==
    (\E st \in StateCodes : \E up \in Upstreams : get_alerts(st, up))
        /\ UNCHANGED <<baseVars, chatVars, mainVars>>
SpecWeather == Init /\ [][NextWeather]_vars

\* ------------------------------------------------- claims on the agent
\* A step of handle_tool_calls (the only step that counts a round).
ToolStep == rounds' = rounds + 1

\* The tool invocations the current step logged.
NewLog == SubSeq(executed', Len(executed) + 1, Len(executed'))

\* The messages the current step put into memory.
NewMsgs == SubSeq(memory', Len(memory) + 1, Len(memory'))

SeqRange(s) == {s[i] : i \in 1..Len(s)}

\* Index of the last assistant message of a message log, 0 when none.
LastAssistant(mem) ==
    LET S == {k \in 1..Len(mem) : mem[k].role = "assistant"}
    IN IF S = {} THEN 0 ELSE CHOOSE k \in S : \A j \in S : j <= k

\* The configured maximum of tool rounds that C6 speaks of (spec section 6,
\* "max tool-iteration rounds"); one below the bound of the model, so that a
\* round beyond it can be seen.
MaxToolRounds == MaxRounds - 1

\* C1: in handle_tool_calls, every tool call naming a tool the agent does not
\* have gets a tool message "Tool <name> does not exist" in memory, no
\* exception leaves the step, and the step returns an InputEvent.
C1_UnknownToolContained ==
    [][(ToolStep /\ \E i \in 1..Len(tool_calls) :
                        tool_calls[i].tool_name \notin tools)
       => /\ pc' = "llm"
          /\ failure' = ""
          /\ \A i \in 1..Len(tool_calls) :
                tool_calls[i].tool_name \notin tools
                => \E m \in SeqRange(NewMsgs) :
                      /\ m.role = "tool"
                      /\ m.content = NotExistContent(tool_calls[i])]_vars

\* C2: in handle_tool_calls, when an existing tool raises, that call yields
\* exactly one tool message carrying the error summary, the other calls of
\* the batch are still executed, and the step returns an InputEvent.
C2_ToolFailureContained ==
    [][(ToolStep /\ \E e \in SeqRange(NewLog) : e.outcome = "raise")
       => /\ pc' = "llm"
          /\ Len(NewMsgs) = Len(tool_calls)
          /\ \A i \in 1..Len(tool_calls) :
                (\E e \in SeqRange(NewLog) :
                    e.id = tool_calls[i].tool_id /\ e.outcome = "raise")
                => Cardinality({k \in 1..Len(NewMsgs) :
                       /\ NewMsgs[k].tool_call_id = tool_calls[i].tool_id
                       /\ NewMsgs[k].content = ErrorContent(tool_calls[i])}) = 1]_vars

\* C3: whenever the agent is about to call the model again after a tool
\* round, memory holds, after the assistant message that carried the batch,
\* exactly one tool message per call of the batch, with that call's
\* tool_call_id: no call without a result, no call with two.
C3_OneResultPerCall ==
    (pc = "llm" /\ rounds > 0)
    => LET k == LastAssistant(memory)
           batch == memory[k].tool_calls
       IN /\ k > 0
          /\ Len(memory) - k = Len(batch)
          /\ \A i \in 1..Len(batch) :
                Cardinality({j \in 1..Len(memory) :
                    /\ memory[j].role = "tool"
                    /\ memory[j].tool_call_id = batch[i].tool_id}) = 1

\* C3's case: a second model call is due after a batch of two calls of which
\* one returned and one raised.
C3_Witness ==
    /\ pc = "llm"
    /\ rounds > 0
    /\ Len(memory[LastAssistant(memory)].tool_calls) = 2
    /\ \E e \in SeqRange(executed) : e.outcome = "raise"
    /\ \E e \in SeqRange(executed) : e.outcome = "ok"

\* C4: handle_tool_calls appends the tool messages of its batch to memory in
\* the order the model emitted the calls, whatever the batch contains:
\* successful, failing and unknown calls.
C4_EmissionOrder ==
    [][ToolStep
       => /\ Len(NewMsgs) = Len(tool_calls)
          /\ \A i \in 1..Len(NewMsgs) :
                /\ NewMsgs[i].role = "tool"
                /\ NewMsgs[i].tool_call_id = tool_calls[i].tool_id]_vars

\* C6: with a model that answers every call with one tool call that
\* succeeds, a request configured with a maximum of N tool rounds runs no
\* more than N rounds of handle_llm_input and handle_tool_calls: after N
\* rounds no further batch is handed to handle_tool_calls.
C6_IterationCap ==
    (/\ Len(executed) = rounds
     /\ Len(sources) = rounds
     /\ failure = "")
    => /\ rounds <= MaxToolRounds
       /\ ~(rounds = MaxToolRounds /\ pc = "tools")

\* C9: when the model response carries no tool call, handle_llm_input puts
\* the response into memory as the last message and stops the workflow with
\* that response and the sources of the request; no tool is executed by the
\* step and the stopped request makes no further model call.
C9_FinalTextStops ==
    [][/\ (pc = "llm" /\ pc' = "done")
          => /\ memory' = Append(memory, result'.response)
             /\ result'.response.role = "assistant"
             /\ result'.response.tool_calls = <<>>
             /\ result'.sources = sources
             /\ sources' = sources
             /\ executed' = executed
             /\ llmCalls' = llmCalls + 1
       /\ (pc = "done" /\ pc' = "done")
          => /\ llmCalls' = llmCalls
             /\ executed' = executed
             /\ memory' = memory
       /\ (pc = "done" /\ pc' # "done") => pc' = "start"]_vars

\* C9's case: a request stopped with a final text after a tool round that
\* produced a source.
C9_Witness ==
    /\ pc = "done"
    /\ rounds >= 1
    /\ Len(sources) >= 1
    /\ result.sources = sources
    /\ memory[Len(memory)] = result.response

\* C10 as claimed: a completed round of n tool calls grows sources by
\* exactly n entries.
C10_AllResultsInSources ==
    [][(ToolStep /\ pc' = "llm")
       => Len(sources') = Len(sources) + Len(tool_calls)]_vars

\* The calls of the pending batch that the current step invoked and that
\* returned.
ReturnedCalls ==
    SelectSeq(tool_calls,
              LAMBDA c : \E e \in SeqRange(NewLog) :
                            e.id = c.tool_id /\ e.outcome = "ok")

\* C10 amended: a handle_tool_calls step grows sources by exactly one entry
\* per call that was invoked and returned, in call order; a call whose tool
\* raised, an unknown call and the calls after an unknown call add none.
C10_ReturnedResultsInSources ==
    [][ToolStep
       => /\ sources' = sources \o
                [i \in 1..Len(ReturnedCalls) |-> ToolOutput(ReturnedCalls[i])]
          /\ Len(sources') - Len(sources) <= Len(tool_calls)
          /\ (pc' = "llm"
              => Len(sources') - Len(sources) =
                   Cardinality({i \in 1..Len(NewMsgs) :
                       NewMsgs[i].content # ErrorContent(tool_calls[i])}))]_vars

\* C10's case: a completed round of two calls, one returned and one raised,
\* left one source.
C10_Witness ==
    /\ pc = "llm"
    /\ rounds = 1
    /\ Len(tool_calls) = 2
    /\ Len(sources) = 1
    /\ \E e \in SeqRange(executed) : e.outcome = "raise"

\* s is a prefix of t.
IsPrefix(s, t) == Len(s) <= Len(t) /\ SubSeq(t, 1, Len(s)) = s

\* The run is between agent.run and its end: a step of the workflow is due.
InRequest == pc \in {"start", "llm", "tools"}

\* C11: during one request sources only grows: every step of the request,
\* and each handle_tool_calls round in particular, keeps the earlier entries
\* in place and appends after them (at most one entry per call of the
\* batch); prepare_chat_history, the first step of a request, leaves sources
\* empty, and no later step of the request empties it.
C11_SourcesGrow ==
    [][/\ InRequest => IsPrefix(sources, sources')
       /\ ToolStep => Len(sources') <= Len(sources) + Len(tool_calls)
       /\ (pc = "start" /\ pc' = "llm") => sources' = <<>>
       /\ InRequest => ~(sources # <<>> /\ sources' = <<>>)]_vars

\* C11's case: the second tool round of a request appended its source after
\* the source of the first round.
C11_Witness ==
    /\ pc = "llm"
    /\ rounds = 2
    /\ Len(executed) = 2
    /\ Len(sources) = 2
    /\ sources[1].call < sources[2].call

\* C12: the message log of a request is append-only: over every step
\* prepare_chat_history, handle_llm_input and handle_tool_calls the log
\* before the step is a prefix of the log after it.
C12_LogAppendOnly ==
    [][InRequest => IsPrefix(memory, memory')]_vars

\* C12's case: a tool round of two calls has put its two tool messages after
\* the user message and the assistant message.
C12_Witness ==
    /\ pc = "llm"
    /\ rounds = 1
    /\ Len(memory) = 4
    /\ memory[1].role = "user"
    /\ memory[2].role = "assistant"
    /\ memory[3].role = "tool"
    /\ memory[4].role = "tool"

\* C13: when the model call of round k >= 2 times out, the request ends in
\* failure and what the caller of handle_user_message receives is that
\* failure together with the sources of the k-1 completed rounds.
C13_TimeoutKeepsSources ==
    (failure = "ModelTimeout" /\ rounds >= 1)
    => /\ pc = "failed"
       /\ Surfaced.kind = "exception"
       /\ Surfaced.error = "ModelTimeout"
       /\ Surfaced.sources = sources

\* C14: an agent built with an empty tool list never has a ToolCallEvent
\* pending and never runs a handle_tool_calls step, whatever the model
\* returns.
C14_NoToolsNoToolStep ==
    tools = {} => (pc # "tools" /\ rounds = 0 /\ tool_calls = <<>>)

\* A step of handle_llm_input or handle_tool_calls is cancelled.
CancelStep == failure = "" /\ failure' = "CancelledError"

\* The tool messages of a log.
ToolMsgs(mem) == SelectSeq(mem, LAMBDA m : m.role = "tool")

StreamEventsOf(ds) == [i \in 1..Len(ds) |-> StreamEvent(ds[i])]

\* C20: in handle_llm_input every delta of the response stream is written to
\* the event stream as one StreamEvent, in the order of arrival (a delta of
\* None as the empty string); writing a delta puts nothing into memory, and
\* when the response is put into memory all deltas of the call have been
\* written.
C20_DeltasStreamedBeforeCommit ==
    [][/\ stream' = StreamEventsOf(deltas')
       /\ Len(deltas') > Len(deltas)
          => /\ IsPrefix(stream, stream')
             /\ Len(stream') = Len(stream) + 1
             /\ memory' = memory
       /\ (pc = "llm" /\ memory' # memory)
          => /\ deltas # <<>>
             /\ stream = StreamEventsOf(deltas)]_vars

\* C20's case: two deltas of one model call, the first of them None, have
\* been written and the response is not yet in memory.
C20_Witness ==
    /\ pc = "llm"
    /\ deltas = <<None, "tok">>
    /\ stream = <<StreamEvent(None), StreamEvent("tok")>>
    /\ memory[Len(memory)].role # "assistant"

\* C21: a response that is neither final text nor a batch of tool calls (the
\* text of a tool-call payload) ends the request in failure: the request
\* does not stop successfully with it.
C21_UnparseableFails ==
    pc = "done" => result.response.content \notin {<<t>> : t \in PayloadTexts}

\* The tool calls the assistant messages of a log carry.
CallsOf(mem) == UNION {SeqRange(mem[k].tool_calls) : k \in 1..Len(mem)}

RECURSIVE RoundsFrom(_, _)
RoundsFrom(mem, k) ==
    IF k > Len(mem) THEN TRUE
    ELSE /\ mem[k].role = "assistant"
         /\ IF mem[k].tool_calls = <<>> THEN k = Len(mem)
            ELSE LET n == Len(mem[k].tool_calls)
                 IN \/ k = Len(mem)
                    \/ /\ k + n <= Len(mem)
                       /\ \A i \in 1..n :
                             /\ mem[k + i].role = "tool"
                             /\ mem[k + i].tool_call_id =
                                   mem[k].tool_calls[i].tool_id
                       /\ RoundsFrom(mem, k + n + 1)

\* C24: the log of a request is one user message followed by rounds of one
\* assistant message and then its tool messages; every response of the model
\* is in it once, before the tool messages of its round; when the request
\* has stopped the log ends with the one assistant message without tool
\* calls, and holds one assistant message per model call.
C24_MemoryShape ==
    /\ memory # <<>> => (memory[1].role = "user" /\ RoundsFrom(memory, 2))
    /\ pc = "done"
       => /\ memory[Len(memory)].role = "assistant"
          /\ memory[Len(memory)].tool_calls = <<>>
          /\ Len(SelectSeq(memory, LAMBDA m : m.role = "assistant")) = llmCalls
          /\ Len(ToolMsgs(memory)) = Cardinality(CallsOf(memory))

\* C24's case: a stopped request of two tool rounds: user, assistant, tool,
\* assistant, tool, tool, assistant.
C24_Witness ==
    /\ pc = "done"
    /\ rounds = 2
    /\ Len(memory) = 7
    /\ memory[3].role = "tool"
    /\ memory[4].role = "assistant"
    /\ memory[7].tool_calls = <<>>

\* ---------------------------------------------- claims on process_query
\* C5: when one model response carries several tool calls, process_query
\* executes all of them and appends all their results before it calls the
\* model again: no model call lies between two tool calls of that response.
\* (Every tool call process_query makes is one of the first response.)
C5_BatchedToolCalls ==
    \A i, j, k \in 1..Len(events) :
        (i < j /\ j < k /\ events[i].kind = "tool" /\ events[k].kind = "tool")
        => events[j].kind # "model"

\* The model calls among the events, in order.
ModelEvents == SelectSeq(events, LAMBDA e : e.kind = "model")

\* C25: in process_query of mcp-client/client.py a message of the list is
\* never changed after it was appended: what an earlier model call received
\* is the beginning of what every later model call of the request receives.
C25_MessagesNeverChange ==
    variant = "anthropic"
    => \A i, j \in 1..Len(ModelEvents) :
          i < j => IsPrefix(ModelEvents[i].sent, ModelEvents[j].sent)

\* The tool calls among the events, in order.
ToolCallEvents == SelectSeq(events, LAMBDA e : e.kind = "tool")

\* The lines C27 names, from block i of the first response on, where m is the
\* model call that answers the next tool result.
RECURSIVE ClaimedLines(_, _)
ClaimedLines(i, m) ==
    IF i > Len(first.blocks) THEN <<>>
    ELSE IF first.blocks[i].type = "text"
    THEN <<first.blocks[i].text>> \o ClaimedLines(i + 1, m)
    ELSE <<CallingMarker(first.blocks[i]), ModelEvents[m].blocks[1].text>>
             \o ClaimedLines(i + 1, m + 1)

\* C27: a request of mcp-client/client.py that returns, its first response
\* carrying k tool-use blocks, has made 1 + k model calls and k tool calls,
\* the model call after each tool call being fed that call's result; the
\* returned text is the newline join, in block order, of each text block and
\* for each tool-use block its marker and then the text of the response to
\* its tool result.
C27_CallsAndText ==
    (cpc = "returned" /\ variant = "anthropic")
    => LET uses == ToolUses(first.blocks)
           k == Len(uses)
       IN /\ Len(ModelEvents) = 1 + k
          /\ Len(ToolCallEvents) = k
          /\ \A n \in 1..k :
                /\ ToolCallEvents[n].id = uses[n].id
                /\ ModelEvents[n + 1].sent[Len(ModelEvents[n + 1].sent)]
                     = ToolResultMsg(uses[n])
          /\ Join(final_text) = Join(ClaimedLines(1, 2))

\* C27's case: a request has returned whose first response was a tool-use
\* block, a text block: two model calls, one tool call, three lines.
C27_Witness ==
    /\ cpc = "returned"
    /\ variant = "anthropic"
    /\ Len(first.blocks) = 2
    /\ first.blocks[1].type = "tool_use"
    /\ first.blocks[2].type = "text"
    /\ Len(ModelEvents) = 2
    /\ Len(final_text) = 3
    /\ Len(Join(final_text)) = 5

\* C7: process_query repeats the tool loop until the model returns final
\* text: when it returns, every tool call that any model response of the
\* request carried, the responses to tool results included, was executed.
C7_LoopUntilFinalText ==
    cpc = "returned"
    => \A i \in 1..Len(events) :
          events[i].kind = "model"
          => \A b \in SeqRange(ToolUses(events[i].blocks)) :
                \E k \in 1..Len(events) :
                    events[k].kind = "tool" /\ events[k].id = b.id

\* C8: a failure of session.call_tool is recovered inside process_query: the
\* request does not end with that exception, and a model call that is fed
\* the failure as a tool-result message follows the failed tool call.
C8_ToolFailureRecovered ==
    /\ cerror # "call_tool"
    /\ \A i \in 1..Len(events) :
          (events[i].kind = "tool" /\ events[i].outcome = "raise"
             /\ cpc \in {"returned", "raised"})
          => \E k \in (i + 1)..Len(events) : events[k].kind = "model"
\* ----------------- claims on handle_user_message of client_agent_llama.py
\* C15: a final response whose text starts with '{"tool_calls"' fails the
\* request with a ModelProtocolError: the function neither asks the model for
\* a follow-up synthesis nor returns an answer.
C15_ToolCallTextFails ==
    (final_response # <<>> /\ StartsWith(Strip(final_response), ToolCallsPrefix))
    => /\ hpc = "raised"
       /\ herror = "ModelProtocolError"
       /\ completions = 0
       /\ returned = None

\* The status line C22 quotes for a tool call.
ClaimedCallingLine(event) ==
    <<"Calling tool ", event.tool_name, " with args ", event.tool_kwargs>>

\* The tool-call and tool-result events of a sequence of events, in order.
ToolEvents(evs) ==
    SelectSeq(evs, LAMBDA e : e.type \in {"ToolCall", "ToolCallResult"})

\* C22 as claimed: with verbose the printed lines are, in event order, one
\* "Calling tool <name> with args <args>" per tool-call event and one "Tool
\* <name> returned <output>" per tool-result event; without verbose nothing
\* is printed.
C22_StatusLinesWithArgs ==
    printed = IF verbose
              THEN [i \in 1..Len(ToolEvents(hevents)) |->
                      IF ToolEvents(hevents)[i].type = "ToolCall"
                      THEN ClaimedCallingLine(ToolEvents(hevents)[i])
                      ELSE ReturnedLine(ToolEvents(hevents)[i])]
              ELSE <<>>

\* C22 amended: the same with the line of a tool call reading "Calling tool
\* <name> with kwargs <kwargs>".
C22_StatusLinesWithKwargs ==
    printed = IF verbose
              THEN [i \in 1..Len(ToolEvents(hevents)) |->
                      IF ToolEvents(hevents)[i].type = "ToolCall"
                      THEN <<"Calling tool ", ToolEvents(hevents)[i].tool_name,
                             " with kwargs ", ToolEvents(hevents)[i].tool_kwargs>>
                      ELSE <<"Tool ", ToolEvents(hevents)[i].tool_name,
                             " returned ", ToolEvents(hevents)[i].tool_output>>]
              ELSE <<>>

\* C22's case: verbose, and a tool call and its result streamed and printed.
C22_Witness ==
    /\ verbose
    /\ Len(hevents) = 2
    /\ hevents[1].type = "ToolCall"
    /\ hevents[2].type = "ToolCallResult"
    /\ Len(printed) = 2

\* -------------------------------------------------- claims on the REPLs
\* C17: in every REPL, when the handling of a request raises, the error is
\* printed and the REPL reads the next input line: it has not exited.
C17_ErrorContinues ==
    [][errors' = errors + 1
       => /\ rprinted' = Append(rprinted, "error")
          /\ rpc' = "reading"
          /\ exit_cause' = ""]_vars

\* The two tokens C18 speaks of, as the user types them.
ExitToken == <<"exit">>
QuitToken == <<"quit">>

\* The token a REPL tests for, and the one it does not test for.
TokenOf(r) ==
    IF r \in {"client", "client_llamaindex"} THEN QuitToken ELSE ExitToken
OtherToken(r) ==
    IF r \in {"client", "client_llamaindex"} THEN ExitToken ELSE QuitToken

\* C18 as claimed: in every REPL a line that is the token exit or the token
\* quit ends the session, being the last line read, and is never passed to
\* the request handler.
C18_TokensNeverForwarded ==
    /\ \A i \in 1..Len(forwarded) : forwarded[i] \notin {ExitToken, QuitToken}
    /\ \A i \in 1..Len(entered) :
          entered[i] \in {ExitToken, QuitToken}
          => (i = Len(entered) /\ rpc = "exited" /\ exit_cause = "token")

\* C18 amended: every REPL has one terminating token, quit for the two
\* chat_loops and exit for the three mains: a line that is this token ends
\* the session, being the last line read, and is never passed to the request
\* handler; a line that is the other token is passed to the request handler
\* as a query.
C18_OwnTokenTerminates ==
    /\ \A i \in 1..Len(forwarded) : forwarded[i] # TokenOf(repl)
    /\ \A i \in 1..Len(entered) :
          entered[i] = TokenOf(repl)
          => (i = Len(entered) /\ rpc = "exited" /\ exit_cause = "token")
    /\ \A i \in 1..Len(entered) :
          entered[i] = OtherToken(repl)
          => \E j \in 1..Len(forwarded) : forwarded[j] = OtherToken(repl)

\* C18's case: a REPL that was handed the other token as a query and has
\* then ended on its own token.
C18_Witness ==
    /\ rpc = "exited"
    /\ exit_cause = "token"
    /\ entered[Len(entered)] = TokenOf(repl)
    /\ \E j \in 1..Len(forwarded) : forwarded[j] = OtherToken(repl)

\* C19: when the user types n lines that are no terminating token and then
\* the terminating token, and no request raises, the REPL ends having passed
\* exactly these n lines to the request handler, one call per line, in input
\* order.
C19_OneRequestPerLine ==
    LET full == entered \o script
        n == Len(full) - 1
    IN (/\ rpc = "exited"
        /\ errors = 0
        /\ n >= 0
        /\ Terminates(repl, full[n + 1])
        /\ \A i \in 1..n : ~Terminates(repl, full[i]))
       => forwarded = [i \in 1..n |-> QueryOf(repl, full[i])]
\* --------------------------- claims on process_query of client_llama.py
\* The contents of the user messages of a list, in order.
UserContents(msgs) ==
    LET us == SelectSeq(msgs, LAMBDA m : m.role = "user")
    IN [i \in 1..Len(us) |-> us[i].content]

\* The queries of the first n calls that omitted the argument or were given
\* the default list back, in call order.
RECURSIVE SharedQueries(_)
SharedQueries(n) ==
    IF n = 0 THEN <<>>
    ELSE IF calls[n].arg \in {0, 1}
    THEN Append(SharedQueries(n - 1), calls[n].query)
    ELSE SharedQueries(n - 1)

\* The queries of the first n calls that omitted the argument.
RECURSIVE OmittedQueries(_)
OmittedQueries(n) ==
    IF n = 0 THEN <<>>
    ELSE IF calls[n].arg = 0
    THEN Append(OmittedQueries(n - 1), calls[n].query)
    ELSE OmittedQueries(n - 1)

\* C26: the calls of process_query that omit the messages argument share
\* one list: the list such a call sends to the model holds the user messages
\* of all calls so far on that list in call order, which are exactly those
\* of the calls that omitted the argument unless the caller passed the
\* returned list back; a call given a list appends exactly one user message
\* to that list, leaves every other list alone, and returns the same list.
C26_DefaultListShared ==
    /\ [](\A n \in 1..Len(calls) :
            calls[n].arg = 0
            => /\ UserContents(calls[n].sent) = SharedQueries(n)
               /\ (\A k \in 1..n : calls[k].arg # 1)
                  => /\ UserContents(calls[n].sent) = OmittedQueries(n)
                     /\ Len(calls[n].sent) = Len(OmittedQueries(n)))
    /\ [][calls' # calls
          => LET c == calls'[Len(calls')]
             IN c.arg # 0
                => /\ heap'[c.arg] = Append(heap[c.arg], UserMessage(c.query))
                   /\ c.sent = heap'[c.arg]
                   /\ c.returned \in {0, c.arg}
                   /\ Len(heap') = Len(heap)
                   /\ \A l \in 1..Len(heap) : l # c.arg => heap'[l] = heap[l]
         ]_vars

\* C26's case: a call without a list, a call with main's list, and a second
\* call without a list, which sends both user messages of the calls without.
C26_Witness ==
    /\ Len(calls) = 3
    /\ calls[1].arg = 0
    /\ calls[2].arg = 2
    /\ calls[2].sent = <<SystemMessage, UserMessage(calls[2].query)>>
    /\ calls[2].returned = 2
    /\ calls[3].arg = 0
    /\ Len(calls[3].sent) = 2
    /\ calls[3].sent[1].content # calls[3].sent[2].content

\* ------------------------------------------------- claims on the mains
\* C28: in both mains cleanup is invoked exactly once on every path after the
\* client is created: never twice, never before the try block has ended,
\* and once the try block has ended (the chat loop ended normally,
\* connect_to_server raised, or the chat loop raised) cleanup is eventually
\* invoked and has closed every context of the exit stack.
C28_CleanupOnce ==
    /\ [](cleanups <= 1)
    /\ [](cleanups = 1 => (ended # "" /\ exit_stack = <<>>))
    /\ [](mpc = "exited" => cleanups = 1)
    /\ \A e \in {"normal", "connect_raised", "chat_raised"} :
          (ended = e) ~> (cleanups = 1 /\ ended = e)

\* C28's case: the chat loop raised after a handled line, and cleanup ran
\* once and closed the session and the transport.
C28_Witness ==
    /\ mpc = "exited"
    /\ ended = "chat_raised"
    /\ turns # <<>>
    /\ cleanups = 1
    /\ closed = <<"session", "transport">>

\* The last n characters of a path, the whole path when it is shorter.
LastChars(str, n) ==
    IF Len(str) <= n THEN str ELSE SubSeq(str, Len(str) - n + 1, Len(str))

\* C29: connect_to_server of mcp-client/client.py raises ValueError exactly
\* for the paths that end in neither .py nor .js, before any transport or
\* session is opened: the session stays None and the exit stack empty; for
\* an accepted path the command is python when the path ends in .py and
\* node otherwise.
C29_PathCheck ==
    (mprog = "client" /\ mpc # "connect")
    => LET py == LastChars(script_path, 3) = <<".", "p", "y">>
           js == LastChars(script_path, 3) = <<".", "j", "s">>
       IN /\ (merror = "ValueError") <=> ~(py \/ js)
          /\ merror = "ValueError"
             => /\ session = None
                /\ exit_stack = <<>>
                /\ closed = <<>>
                /\ command = None
          /\ merror # "ValueError"
             => command = (IF py THEN "python" ELSE "node")

\* C29's case: a path ending in .pyc was rejected.
C29_Witness ==
    /\ mprog = "client"
    /\ script_path = <<"w", ".", "p", "y", "c">>
    /\ merror = "ValueError"
    /\ mpc = "exited"
    /\ session = None

\* ------------------------------------------------- claims on get_alerts
\* Pieces of one formatted alert, and of an alert with its separator.
AlertLen == 11
Stride == AlertLen + 1

\* C30: get_alerts does not raise on a failed upstream request: every error
\* of the request becomes None and the answer "Unable to fetch alerts or no
\* alerts found.", as does an answer without the features key; an empty
\* features list gives "No active alerts for this state."; otherwise, the
\* features being features with properties, the text is one formatted block
\* per feature in feature order with the --- separator between the blocks.
C30_GetAlerts ==
    wpc # "idle"
    => LET fs == upstream.json.features
           n == Len(fs)
       IN /\ upstream.error # ""
             => /\ data = NoData
                /\ wpc = "returned"
                /\ wresult = <<"Unable to fetch alerts or no alerts found.">>
          /\ (upstream.error = "" /\ "features" \notin upstream.json.keys)
             => /\ wpc = "returned"
                /\ wresult = <<"Unable to fetch alerts or no alerts found.">>
          /\ (upstream.error = "" /\ "features" \in upstream.json.keys
                /\ fs = <<>>)
             => /\ wpc = "returned"
                /\ wresult = <<"No active alerts for this state.">>
          /\ (upstream.error = "" /\ "features" \in upstream.json.keys
                /\ fs # <<>> /\ \A i \in 1..n : fs[i].has_properties)
             => /\ wpc = "returned"
                /\ Len(wresult) = n * AlertLen + (n - 1)
                /\ \A i \in 1..n :
                      /\ SubSeq(wresult, (i - 1) * Stride + 1,
                                (i - 1) * Stride + AlertLen)
                           = format_alert(fs[i])
                      /\ i < n => wresult[i * Stride] = "\n---\n"

\* C30's case: an answer of two different alerts was formatted, the first
\* alert first.
C30_Witness ==
    /\ wpc = "returned"
    /\ Len(upstream.json.features) = 2
    /\ upstream.json.features[1].properties.event = "Flood Warning"
    /\ upstream.json.features[2].properties.event = "Heat Advisory"
    /\ Len(wresult) = 2 * AlertLen + 1
    /\ wresult[2] = "Flood Warning"
    /\ wresult[Stride] = "\n---\n"
    /\ wresult[Stride + 2] = "Heat Advisory"

====
